---- MODULE Spec2Model ----
(***************************************************************************)
(* Model of the text-to-SQL client (api/clickhouse_client.py), the tool    *)
(* server it talks to (api/clickhouse_server.py) and the HTTP front end    *)
(* (api/main.py).                                                          *)
(*                                                                         *)
(* Texts are sequences of tokens, so that substring tests, split() and     *)
(* strip() are computed rather than assumed.  One step of the model runs   *)
(* on the single asyncio event loop.  The OpenAI client is the blocking    *)
(* one, so rephrase/generate/repair/summarize never yield to the loop; the *)
(* only suspension points are the stdio tool calls (execute_query and      *)
(* get_table_schema).  Other requests run only while process() is          *)
(* suspended in such a call or is not running.                             *)
(***************************************************************************)
EXTENDS Integers, Sequences, FiniteSets, TLC

VARIABLES client, sel, selects, proc, ret, calls

vars == <<client, sel, selects, proc, ret, calls>>

----------------------------------------------------------------------------
(* Bounds of the model *)

MaxRetriesBound == 2
NumSelects == 2
MaxSelectCalls == 2

Slots == 1..NumSelects
RetryChoices == 0..MaxRetriesBound

----------------------------------------------------------------------------
(* Texts *)

Sentinel == "Error executing custom query:"
SP == " "

RECURSIVE StripLeft(_)
StripLeft(t) ==
    IF t # <<>> /\ Head(t) = SP THEN StripLeft(Tail(t)) ELSE t

RECURSIVE StripRight(_)
StripRight(t) ==
    IF t # <<>> /\ t[Len(t)] = SP THEN StripRight(SubSeq(t, 1, Len(t) - 1)) ELSE t

Strip(t) == StripRight(StripLeft(t))

Contains(t, tok) == \E i \in 1..Len(t) : t[i] = tok

Positions(t, tok) == {i \in 1..Len(t) : t[i] = tok}

Min(S) == CHOOSE x \in S : \A y \in S : x <= y

(* t.split(tok)[1]: the text between the first and the second occurrence *)
SplitSecond(t, tok) ==
    LET first == Min(Positions(t, tok))
        later == {i \in Positions(t, tok) : i > first}
        stop  == IF later = {} THEN Len(t) + 1 ELSE Min(later)
    IN  SubSeq(t, first + 1, stop - 1)

----------------------------------------------------------------------------
(* The database behind the tool server *)

Tables == {"orders", "ghost"}
ExistingTables == {"orders"}

DbErrors == {<<"e1">>}
RowSets == {<<"rows">>, <<"rows", Sentinel, "cell">>}

(* call_tool("get_table_schema"): the text of the reply *)
SchemaJson(table_name) == <<"schema-json", table_name>>
SchemaNotFoundText(table_name) ==
    <<"Table", table_name, "not found or has no columns.">>
SchemaErrorText(table_name, e) ==
    <<"Error retrieving schema for table", table_name, ":", SP>> \o e

SchemaReplies(table_name) ==
    IF table_name \in ExistingTables
    THEN {SchemaJson(table_name)}
    ELSE {SchemaNotFoundText(table_name),
          SchemaErrorText(table_name, <<"unknown table">>)}

(* call_tool("execute_custom_query"): the text of the reply *)
QueryErrorText(e) == <<Sentinel, SP>> \o e
QueryNoDataText == <<"Query executed successfully, but returned no data.">>
QuerySuccessText(rows) == <<"Query executed successfully:", "\n\n">> \o rows

QueryReplies ==
    {QueryErrorText(e) : e \in DbErrors}
    \cup {QueryNoDataText}
    \cup {QuerySuccessText(rows) : rows \in RowSets}

(* execute_query, line 139: no content item of the tool result has a text *)
QueryUnparsedText ==
    <<"Query executed, but couldn't parse the result:", SP, "tool_result">>

(* What TextToSQLClient.execute_query can return *)
ExecuteResults == QueryReplies \cup {QueryUnparsedText}

----------------------------------------------------------------------------
(* Python values *)

None == [py_none |-> TRUE]
IsNone(v) == DOMAIN v = {"py_none"}

hasattr(obj, name) == name \in DOMAIN obj

setattr(obj, name, value) ==
    [a \in DOMAIN obj \cup {name} |-> IF a = name THEN value ELSE obj[a]]

TransportError == <<"connection lost">>
NoTableError == <<"No table has been selected for this session">>
IrrelevantError ==
    <<"Invalid or irrelevant query. Please ask a database-related question.">>
AllFailedText ==
    <<"All query correction attempts failed. Please try rephrasing your question.">>

----------------------------------------------------------------------------
(* The reasoning service *)

UserQueries == {<<"how many orders">>}
Verdicts ==
    [query_type : {"valid", "wrong"},
     queries : {<<>>, <<(<<"count the orders">>)>>}]
GeneratedTexts == {<<SP, "SELECT 1", SP>>}
RepairedTexts == {<<"SELECT 2", SP>>}
Summaries == {<<"There are 3 orders.">>}

----------------------------------------------------------------------------
(* State *)

IdleProc ==
    [pc |-> "idle", user_query |-> <<>>, max_retries |-> 0,
     rephrased_query |-> <<>>, sql_query |-> <<>>, current_query |-> <<>>,
     original_query |-> <<>>, retry_count |-> 0, error_messages |-> <<>>,
     result |-> <<>>]

(* TextToSQLClient.__init__ sets neither selected_table nor table_schema *)
NewClient == [a \in {} |-> <<>>]

IdleSel == [pc |-> "idle", table_name |-> "", status |-> 0]

Init ==
    /\ client = NewClient
    /\ sel = [s \in Slots |-> IdleSel]
    /\ selects = 0
    /\ proc = IdleProc
    /\ ret = None
    /\ calls = <<>>

(* The event loop runs other requests only while process() is suspended   *)
(* or not running.  Between the return of process() and its caller's       *)
(* reading of the envelope there is no await, so nothing runs at "done".   *)
LoopFree == proc.pc \in {"idle", "awaiting_execute", "awaiting_final_execute"}

----------------------------------------------------------------------------
(* select_table (api/main.py) *)

(* What TextToSQLClient.get_table_schema can give for a table: the text    *)
(* of the first content item, None when no item carries text, or an        *)
(* exception of the stdio transport.                                       *)
SchemaOutcomes(table_name) ==
    {[kind |-> "text", text |-> r] : r \in SchemaReplies(table_name)}
    \cup {[kind |-> "none", text |-> <<>>],
          [kind |-> "raise", text |-> TransportError]}

(* Python's "not table_schema" *)
Falsy(o) == o.kind = "none" \/ o.text = <<>>

(* The status select_table answers with: the HTTPException(404) is raised  *)
(* inside the try block, and "except Exception" turns it into a 500.       *)
SelectStatus(o) ==
    IF o.kind = "raise" THEN 500
    ELSE IF Falsy(o) THEN 500
    ELSE 200

C7_StoreTableOnly(obj, table_name, table_schema) ==
    setattr(obj, "selected_table", table_name)

(* Lines 35-36: two assignments with no await between them *)
StoreSelection(obj, table_name, table_schema) ==
    setattr(setattr(obj, "selected_table", table_name),
            "table_schema", table_schema)

SelectCall(s, table_name) ==
    /\ LoopFree
    /\ sel[s].pc = "idle"
    /\ selects < MaxSelectCalls
    /\ selects' = selects + 1
    /\ sel' = [sel EXCEPT ![s] = [pc |-> "awaiting_schema",
                                  table_name |-> table_name,
                                  status |-> 0]]
    /\ UNCHANGED <<client, proc, ret, calls>>

SchemaReturn(s) ==
    /\ LoopFree
    /\ sel[s].pc = "awaiting_schema"
    /\ \E o \in SchemaOutcomes(sel[s].table_name) :
          /\ sel' = [sel EXCEPT ![s].pc = "responded",
                                ![s].status = SelectStatus(o)]
          /\ client' = IF o.kind = "raise" \/ Falsy(o)
                       THEN client
                       ELSE StoreSelection(client, sel[s].table_name, o.text)
    /\ UNCHANGED <<selects, proc, ret, calls>>

SelectDone(s) ==
    /\ sel[s].pc = "responded"
    /\ sel' = [sel EXCEPT ![s] = IdleSel]
    /\ UNCHANGED <<client, selects, proc, ret, calls>>

----------------------------------------------------------------------------
(* process_query_for_selected_table (api/clickhouse_client.py) *)

Call(op, args, raised, out) ==
    [op |-> op, args |-> args, raised |-> raised, out |-> out]

C12_ExceptEnvelopeBare(user_query, e) == [error |-> e]

(* Lines 242-246 *)
ExceptEnvelope(user_query, e) == [user_query |-> user_query, error |-> e]

(* Line 164 *)
NoTableEnvelope == [error |-> NoTableError]

(* Lines 198-206 *)
FailedEnvelope(p, table) ==
    [user_query |-> p.user_query,
     rephrased_query |-> p.rephrased_query,
     selected_table |-> table,
     original_sql_query |-> p.original_query,
     error_messages |-> p.error_messages,
     final_sql_query |-> p.current_query,
     result |-> AllFailedText]

C8_CorrectedEnvelopeStale(p, table, result, summary) ==
    [user_query |-> p.user_query,
     rephrased_query |-> p.rephrased_query,
     selected_table |-> table,
     original_sql_query |-> p.original_query,
     error_messages |-> p.error_messages,
     final_sql_query |-> p.sql_query,
     result |-> result,
     summary |-> summary]

(* Lines 209-218 and 232-241 *)
CorrectedEnvelope(p, table, result, summary) ==
    [user_query |-> p.user_query,
     rephrased_query |-> p.rephrased_query,
     selected_table |-> table,
     original_sql_query |-> p.original_query,
     error_messages |-> p.error_messages,
     final_sql_query |-> p.current_query,
     result |-> result,
     summary |-> summary]

(* Lines 223-230 *)
FirstTryEnvelope(p, table, result, summary) ==
    [user_query |-> p.user_query,
     rephrased_query |-> p.rephrased_query,
     selected_table |-> table,
     sql_query |-> p.sql_query,
     result |-> result,
     summary |-> summary]

C1_LoopContinuesInclusive(retry_count, max_retries) == retry_count <= max_retries

(* Line 174: the loop test *)
LoopContinues(retry_count, max_retries) == retry_count < max_retries

C10_StartsWithSentinel(result) == result # <<>> /\ result[1] = Sentinel

C19_UnlessRowsPresent(result) ==
    Contains(result, Sentinel) /\ ~Contains(result, "Query executed successfully:")

(* Lines 177 and 197 *)
IsExecutionError(result) == Contains(result, Sentinel)

(* Line 180 *)
ErrorMessageOf(result) == Strip(SplitSecond(result, Sentinel))

C5_IsWrongOtherLabel(verdict) == verdict.query_type = "invalid"

(* Line 72 *)
IsWrong(verdict) == verdict.query_type = "wrong"

C9_AlwaysFirstTry(p, table, result, summary) ==
    FirstTryEnvelope(p, table, result, summary)

(* Lines 222-241 *)
SuccessEnvelope(p, table, result, summary) ==
    IF p.retry_count = 0
    THEN FirstTryEnvelope(p, table, result, summary)
    ELSE CorrectedEnvelope(p, table, result, summary)

C15_RephrasedRaw(verdict, user_query) == user_query

(* Line 75 *)
RephrasedOf(verdict, user_query) ==
    IF verdict.queries # <<>> THEN verdict.queries[1] ELSE user_query

(* Control reaches the loop test at line 174: enter the body, or fall out  *)
(* of the loop and off the end of the function, which returns None.        *)
AtLoopTest(p) ==
    IF LoopContinues(p.retry_count, p.max_retries)
    THEN /\ proc' = [p EXCEPT !.pc = "execute"]
         /\ ret' = ret
    ELSE /\ proc' = [p EXCEPT !.pc = "done"]
         /\ ret' = None

C23_SchemaDropped(obj) ==
    setattr(obj, "table_schema", <<>>)

(* The session object as a step of process() leaves it: the method only    *)
(* reads self.selected_table and self.table_schema (lines 163, 167,        *)
(* 183-189, 212-217, 227-239) and assigns neither.                         *)
SessionAfterProcess(obj) == obj

(* What a step of process() leaves alone besides its own locals *)
ProcessFrame ==
    /\ client' = SessionAfterProcess(client)
    /\ UNCHANGED <<sel, selects>>

Raise(e) ==
    /\ proc' = [proc EXCEPT !.pc = "done"]
    /\ ret' = ExceptEnvelope(proc.user_query, e)

Invoke(user_query, max_retries) ==
    /\ proc.pc = "idle"
    /\ calls' = <<>>
    /\ IF ~hasattr(client, "selected_table") \/ ~hasattr(client, "table_schema")
       THEN /\ proc' = [IdleProc EXCEPT !.pc = "done",
                                        !.user_query = user_query,
                                        !.max_retries = max_retries]
            /\ ret' = NoTableEnvelope
       ELSE /\ proc' = [IdleProc EXCEPT !.pc = "rephrase",
                                        !.user_query = user_query,
                                        !.max_retries = max_retries]
            /\ ret' = None
    /\ ProcessFrame

RephraseQuery ==
    /\ proc.pc = "rephrase"
    /\ \/ /\ calls' = Append(calls, Call("rephrase", <<proc.user_query>>,
                                         TRUE, TransportError))
          /\ Raise(TransportError)
       \/ \E verdict \in Verdicts :
             /\ calls' = Append(calls, Call("rephrase", <<proc.user_query>>,
                                            FALSE, verdict))
             /\ IF IsWrong(verdict)
                THEN Raise(IrrelevantError)
                ELSE /\ proc' = [proc EXCEPT
                                   !.pc = "generate",
                                   !.rephrased_query =
                                       RephrasedOf(verdict, proc.user_query)]
                     /\ ret' = ret
    /\ ProcessFrame

GenerateSql ==
    /\ proc.pc = "generate"
    /\ LET args == <<proc.rephrased_query, client.selected_table,
                     client.table_schema>>
       IN  \/ /\ calls' = Append(calls, Call("generate", args, TRUE,
                                             TransportError))
              /\ Raise(TransportError)
           \/ \E text \in GeneratedTexts :
                 /\ calls' = Append(calls, Call("generate", args, FALSE, text))
                 /\ AtLoopTest([proc EXCEPT !.sql_query = Strip(text),
                                            !.current_query = Strip(text),
                                            !.original_query = Strip(text),
                                            !.retry_count = 0,
                                            !.error_messages = <<>>])
    /\ ProcessFrame

Pending == <<"pending">>

(* Lines 175 and 195: the arguments are read, then the call is awaited *)
IssueExecute(next_pc) ==
    /\ calls' = Append(calls, Call("execute",
                                   <<proc.current_query, client.selected_table>>,
                                   FALSE, Pending))
    /\ proc' = [proc EXCEPT !.pc = next_pc]
    /\ ProcessFrame
    /\ ret' = ret

Answer(raised, out) ==
    [calls EXCEPT ![Len(calls)] = [@ EXCEPT !.raised = raised, !.out = out]]

ExecuteCall ==
    /\ proc.pc = "execute"
    /\ IssueExecute("awaiting_execute")

ExecuteReturn ==
    /\ proc.pc = "awaiting_execute"
    /\ \/ /\ calls' = Answer(TRUE, TransportError)
          /\ Raise(TransportError)
       \/ \E result \in ExecuteResults :
             /\ calls' = Answer(FALSE, result)
             /\ ret' = ret
             /\ IF IsExecutionError(result)
                THEN proc' = [proc EXCEPT
                                !.pc = "repair",
                                !.result = result,
                                !.error_messages =
                                    Append(@, ErrorMessageOf(result))]
                ELSE proc' = [proc EXCEPT !.pc = "summarize",
                                          !.result = result]
    /\ ProcessFrame

(* Lines 183-194 *)
C17_RepairArgsOriginal(p, obj) ==
    <<p.error_messages[Len(p.error_messages)], p.original_query,
      obj.selected_table, obj.table_schema, p.rephrased_query>>

(* Lines 183-189: the arguments of retry_failed_query *)
RepairArgs(p, obj) ==
    <<p.error_messages[Len(p.error_messages)], p.current_query,
      obj.selected_table, obj.table_schema, p.rephrased_query>>

C20_AfterRepairKeepsQuery(p, corrected_sql) ==
    [p EXCEPT !.retry_count = @ + 1]

C24_AfterRepairNoCount(p, corrected_sql) ==
    [p EXCEPT !.current_query = corrected_sql]

(* Lines 191-192 *)
AfterRepair(p, corrected_sql) ==
    [p EXCEPT !.current_query = corrected_sql, !.retry_count = @ + 1]

RetryFailedQuery ==
    /\ proc.pc = "repair"
    /\ LET args == RepairArgs(proc, client)
       IN  \/ /\ calls' = Append(calls, Call("repair", args, TRUE,
                                             TransportError))
              /\ Raise(TransportError)
           \/ \E text \in RepairedTexts :
                 /\ calls' = Append(calls, Call("repair", args, FALSE, text))
                 /\ ret' = ret
                 /\ LET p == AfterRepair(proc, Strip(text))
                    IN  IF p.retry_count = p.max_retries
                        THEN proc' = [p EXCEPT !.pc = "final_execute"]
                        ELSE AtLoopTest(p)
    /\ ProcessFrame

FinalExecuteCall ==
    /\ proc.pc = "final_execute"
    /\ IssueExecute("awaiting_final_execute")

(* Lines 195-206 *)
FinalExecuteReturn ==
    /\ proc.pc = "awaiting_final_execute"
    /\ \/ /\ calls' = Answer(TRUE, TransportError)
          /\ Raise(TransportError)
       \/ \E final_result \in ExecuteResults :
             /\ calls' = Answer(FALSE, final_result)
             /\ IF IsExecutionError(final_result)
                THEN /\ proc' = [proc EXCEPT !.pc = "done",
                                             !.result = final_result]
                     /\ ret' = FailedEnvelope(proc, client.selected_table)
                ELSE /\ proc' = [proc EXCEPT !.pc = "final_summarize",
                                             !.result = final_result]
                     /\ ret' = ret
    /\ ProcessFrame

(* Lines 220-241 *)
SummarizeResults ==
    /\ proc.pc = "summarize"
    /\ LET args == <<proc.user_query, proc.result>>
       IN  \/ /\ calls' = Append(calls, Call("summarize", args, TRUE,
                                             TransportError))
              /\ Raise(TransportError)
           \/ \E summary \in Summaries :
                 /\ calls' = Append(calls, Call("summarize", args, FALSE,
                                                summary))
                 /\ proc' = [proc EXCEPT !.pc = "done"]
                 /\ ret' = SuccessEnvelope(proc, client.selected_table,
                                            proc.result, Strip(summary))
    /\ ProcessFrame

(* Lines 208-218 *)
FinalSummarize ==
    /\ proc.pc = "final_summarize"
    /\ LET args == <<proc.user_query, proc.result>>
       IN  \/ /\ calls' = Append(calls, Call("summarize", args, TRUE,
                                             TransportError))
              /\ Raise(TransportError)
           \/ \E summary \in Summaries :
                 /\ calls' = Append(calls, Call("summarize", args, FALSE,
                                                summary))
                 /\ proc' = [proc EXCEPT !.pc = "done"]
                 /\ ret' = CorrectedEnvelope(proc, client.selected_table,
                                             proc.result, Strip(summary))
    /\ ProcessFrame

(* The caller has taken the envelope; the next query can be submitted *)
Finish ==
    /\ proc.pc = "done"
    /\ proc' = IdleProc
    /\ ret' = None
    /\ calls' = <<>>
    /\ ProcessFrame

----------------------------------------------------------------------------
(* The front ends: POST /query (api/main.py) and the CLI loop (main() of   *)
(* api/clickhouse_client.py).  Both call process() with the default        *)
(* max_retries and then read the envelope.                                 *)

DefaultMaxRetries == 3

(* The exception, if any, that reading the envelope raises in POST /query  *)
(* (lines 57-67): result["result"].split("\n\n", 1)[1] needs the blank    *)
(* line of the success text, and json.loads needs the row-set after it.    *)
HttpRenderException(result) ==
    IF IsNone(result) THEN "TypeError"
    ELSE IF "error" \in DOMAIN result THEN "none"
    ELSE IF ~Contains(result.result, "\n\n") THEN "IndexError"
    ELSE IF SplitSecond(result.result, "\n\n") \notin RowSets
         THEN "JSONDecodeError"
    ELSE "none"

(* The status POST /query answers with: every HTTPException raised inside  *)
(* the try block, and every other exception, is caught by "except          *)
(* Exception" at line 68 and answered as a 500.                            *)
HttpQueryStatus(obj, result) ==
    IF ~hasattr(obj, "selected_table") \/ ~hasattr(obj, "table_schema")
    THEN 500
    ELSE IF HttpRenderException(result) # "none" THEN 500
    ELSE IF "error" \in DOMAIN result THEN 500
    ELSE 200

(* The keys the CLI loop reads from the envelope (lines 298-323) *)
CliReads(result) ==
    IF "error" \in DOMAIN result THEN {"error"}
    ELSE {"rephrased_query", "result"}
         \cup (IF {"original_sql_query", "final_sql_query"} \subseteq DOMAIN result
               THEN {"original_sql_query", "error_messages", "final_sql_query"}
               ELSE {"sql_query"})

CliRenderException(result) ==
    IF IsNone(result) THEN "TypeError"
    ELSE IF CliReads(result) \subseteq DOMAIN result THEN "none"
    ELSE "KeyError"

----------------------------------------------------------------------------

Next ==
    \/ \E s \in Slots, t \in Tables : SelectCall(s, t)
    \/ \E s \in Slots : SchemaReturn(s)
    \/ \E s \in Slots : SelectDone(s)
    \/ \E q \in UserQueries, m \in RetryChoices : Invoke(q, m)
    \/ RephraseQuery
    \/ GenerateSql
    \/ ExecuteCall
    \/ ExecuteReturn
    \/ RetryFailedQuery
    \/ FinalExecuteCall
    \/ FinalExecuteReturn
    \/ SummarizeResults
    \/ FinalSummarize
    \/ Finish

Spec == Init /\ [][Next]_vars

----------------------------------------------------------------------------
(* What the recorded gateway calls of the current invocation say *)

Returned == proc.pc = "done"

CallsOf(op) == {i \in DOMAIN calls : calls[i].op = op}
NumCalls(op) == Cardinality(CallsOf(op))

Max(S) == CHOOSE x \in S : \A y \in S : x >= y

(* An execution failed or succeeded, as the sentinel phrase tells *)
ExecFailed(i) == ~calls[i].raised /\ Contains(calls[i].out, Sentinel)
ExecSucceeded(i) ==
    /\ ~calls[i].raised
    /\ calls[i].out # Pending
    /\ ~Contains(calls[i].out, Sentinel)

NoCallRaised == \A i \in DOMAIN calls : ~calls[i].raised

RepairFields == {"original_sql_query", "error_messages", "final_sql_query"}

----------------------------------------------------------------------------
(* C1: one invocation issues at most max_retries + 1 execution calls and   *)
(* at most max_retries repair calls.                                       *)
C1_CallBounds ==
    /\ NumCalls("execute") <= proc.max_retries + 1
    /\ NumCalls("repair") <= proc.max_retries

C1_Witness ==
    /\ Returned
    /\ proc.max_retries = MaxRetriesBound
    /\ NumCalls("execute") = proc.max_retries + 1
    /\ NumCalls("repair") = proc.max_retries

(* C2: when all max_retries + 1 executions fail, the envelope lists        *)
(* exactly max_retries + 1 error messages and has no summary.              *)
C2_AllFailedListsEveryError ==
    (/\ Returned
     /\ NumCalls("execute") = proc.max_retries + 1
     /\ \A i \in CallsOf("execute") : ExecFailed(i))
    => /\ "error_messages" \in DOMAIN ret
       /\ Len(ret.error_messages) = proc.max_retries + 1
       /\ "summary" \notin DOMAIN ret

(* C3: when classification and generation succeed and every execution     *)
(* fails, exactly max_retries + 1 executions are made, also for            *)
(* max_retries = 0.                                                        *)
C3_ExactlyMaxRetriesPlusOne ==
    (/\ Returned
     /\ NumCalls("generate") = 1
     /\ NoCallRaised
     /\ \A i \in CallsOf("execute") : ExecFailed(i))
    => NumCalls("execute") = proc.max_retries + 1

(* C4: every invocation returns an envelope: a QueryResult, or an error    *)
(* envelope holding both user_query and error.                             *)
C4_AlwaysAnEnvelope ==
    Returned =>
        /\ ~IsNone(ret)
        /\ "user_query" \in DOMAIN ret
        /\ \/ {"error"} \subseteq DOMAIN ret
           \/ {"rephrased_query", "selected_table", "result"} \subseteq DOMAIN ret

(* C5: a "wrong" verdict ends the invocation at once: no generation,       *)
(* execution, repair or summarization call, and the error envelope         *)
(* {user_query, error} is returned.                                        *)
C5_WrongVerdictStops ==
    (/\ calls # <<>>
     /\ calls[1].op = "rephrase"
     /\ ~calls[1].raised
     /\ calls[1].out.query_type = "wrong")
    => /\ Len(calls) = 1
       /\ Returned
       /\ DOMAIN ret = {"user_query", "error"}
       /\ ret.user_query = proc.user_query
       /\ ret.error = IrrelevantError

C5_Witness ==
    /\ Returned
    /\ calls # <<>>
    /\ ~calls[1].raised
    /\ calls[1].out.query_type = "wrong"
    /\ calls[1].out.queries # <<>>
    /\ "error" \in DOMAIN ret

(* C6: select_table of a table that does not exist or has no columns       *)
(* fails and leaves selected_table and table_schema as they were.          *)
C6_MissingTableLeavesSession ==
    [][\A s \in Slots :
          (/\ sel[s].pc = "awaiting_schema"
           /\ sel'[s].pc = "responded"
           /\ sel[s].table_name \notin ExistingTables)
          => (client' = client /\ sel'[s].status # 200)]_vars

(* C7: under any interleaving of select_table calls the session is never   *)
(* partially updated: selected_table and table_schema are both unset or    *)
(* both set, and table_schema is what was fetched for selected_table.      *)
C7_SessionNeverPartial ==
    /\ hasattr(client, "selected_table") <=> hasattr(client, "table_schema")
    /\ hasattr(client, "selected_table") =>
          client.table_schema \in SchemaReplies(client.selected_table)

C7_Witness ==
    /\ sel[1].pc = "awaiting_schema"
    /\ sel[2].pc = "responded"
    /\ sel[2].status = 200
    /\ sel[1].table_name # sel[2].table_name
    /\ hasattr(client, "selected_table")
    /\ client.selected_table = sel[2].table_name

(* The first k executions failed and execution k+1 succeeded, 1 <= k *)
FailedThenSucceeded ==
    /\ NumCalls("execute") >= 2
    /\ ExecSucceeded(Max(CallsOf("execute")))
    /\ \A i \in CallsOf("execute") \ {Max(CallsOf("execute"))} : ExecFailed(i)
    /\ NumCalls("execute") - 1 <= proc.max_retries

RepairHistoryOfK ==
    /\ RepairFields \cup {"summary"} \subseteq DOMAIN ret
    /\ Len(ret.error_messages) = NumCalls("execute") - 1
    /\ ret.original_sql_query = Strip(calls[2].out)
    /\ ret.final_sql_query = calls[Max(CallsOf("execute"))].args[1]
    /\ NumCalls("repair") = NumCalls("execute") - 1

SummarizeReturned ==
    \E i \in CallsOf("summarize") : ~calls[i].raised

C9_RepairHistoryIffRepaired ==
    (Returned /\ "summary" \in DOMAIN ret) =>
        /\ NumCalls("repair") >= 1 => RepairFields \subseteq DOMAIN ret
        /\ NumCalls("repair") = 0 => RepairFields \cap DOMAIN ret = {}
        /\ ExecSucceeded(Min(CallsOf("execute"))) =>
              /\ NumCalls("execute") = 1
              /\ "sql_query" \in DOMAIN ret
              /\ RepairFields \cap DOMAIN ret = {}

C9_Witness ==
    /\ Returned
    /\ "summary" \in DOMAIN ret
    /\ NumCalls("repair") >= 1
    /\ RepairFields \subseteq DOMAIN ret

C9_WitnessFirstTry ==
    /\ Returned
    /\ "summary" \in DOMAIN ret
    /\ NumCalls("execute") = 1
    /\ "sql_query" \in DOMAIN ret

(* C10 as stated: the envelope has a summary exactly when some execution   *)
(* of the invocation returned a successful row-set.                        *)
C10_Original ==
    Returned =>
        ("summary" \in DOMAIN ret <=> \E i \in CallsOf("execute") : ExecSucceeded(i))

(* C10, amended: the envelope has a summary exactly when some execution    *)
(* succeeded and the summarization call returned; a summarization call is  *)
(* made exactly when an execution succeeded.                               *)
C10_SummaryIffSummarized ==
    /\ Returned =>
          ("summary" \in DOMAIN ret <=>
              /\ \E i \in CallsOf("execute") : ExecSucceeded(i)
              /\ SummarizeReturned)
    /\ CallsOf("summarize") # {} =>
          \E i \in CallsOf("execute") : ExecSucceeded(i)
    /\ (Returned /\ \E i \in CallsOf("execute") : ExecSucceeded(i)) =>
          NumCalls("summarize") = 1

C10_Witness ==
    /\ Returned
    /\ \E i \in CallsOf("execute") : ExecSucceeded(i)
    /\ \E i \in CallsOf("execute") : ExecFailed(i)
    /\ "summary" \in DOMAIN ret

----------------------------------------------------------------------------
(* The executions of the invocation, in the order they were issued *)
IsExecute(c) == c.op = "execute"
Executions == SelectSeq(calls, IsExecute)

IsFailedEnvelope == "result" \in DOMAIN ret /\ ret.result = AllFailedText

(* C11: the retries-exhausted envelope has no summary, final_sql_query is  *)
(* the SQL of the last execution call, and error_messages holds the error  *)
(* message of every failed execution, in the order of the executions.      *)
C11_FailedListsAllErrorsInOrder ==
    (Returned /\ IsFailedEnvelope) =>
        /\ "summary" \notin DOMAIN ret
        /\ ret.final_sql_query = Executions[Len(Executions)].args[1]
        /\ ret.error_messages =
              [i \in 1..Len(Executions) |-> ErrorMessageOf(Executions[i].out)]

(* C12: a gateway call that raises is the last gateway call of the         *)
(* invocation, and the invocation returns {user_query, error} at once.     *)
C12_RaiseIsSurfacedAtOnce ==
    \A i \in DOMAIN calls :
        calls[i].raised =>
            /\ i = Len(calls)
            /\ Returned
            /\ ret = [user_query |-> proc.user_query, error |-> calls[i].out]

C12_Witness ==
    /\ Returned
    /\ NumCalls("repair") = 2
    /\ calls[Len(calls)].op = "repair"
    /\ calls[Len(calls)].raised

(* The invocation ended in Done (an envelope with a summary) or in Failed  *)
(* (the retries-exhausted envelope)                                        *)
EndedDoneOrFailed ==
    /\ ~IsNone(ret)
    /\ "summary" \in DOMAIN ret \/ IsFailedEnvelope

(* C13: when every gateway call returns, the invocation ends in Done or    *)
(* Failed; SQL that keeps failing ends in the retries-exhausted envelope.  *)
C13_EndsDoneOrFailed ==
    (Returned /\ NumCalls("generate") = 1 /\ NoCallRaised) => EndedDoneOrFailed

(* process() itself runs to its return once invoked: each of its steps is  *)
(* a gateway call that comes back                                          *)
ProcessStep ==
    \/ RephraseQuery
    \/ GenerateSql
    \/ ExecuteCall
    \/ ExecuteReturn
    \/ RetryFailedQuery
    \/ FinalExecuteCall
    \/ FinalExecuteReturn
    \/ SummarizeResults
    \/ FinalSummarize

FairSpec == Spec /\ WF_vars(ProcessStep)

(* Termination alone: every invocation returns *)
Terminates == (proc.pc \notin {"idle", "done"}) ~> Returned

(* C15: with a verdict that is not "wrong", an empty candidate list makes  *)
(* the rephrased query the user's text and processing goes on to           *)
(* generation; a non-empty list makes it queries[0]; generation and every  *)
(* repair call get the rephrased query.                                    *)
C15_RephrasedQueryIsUsed ==
    (/\ calls # <<>>
     /\ ~calls[1].raised
     /\ calls[1].out.query_type # "wrong")
    => LET expected == IF calls[1].out.queries = <<>>
                       THEN proc.user_query
                       ELSE calls[1].out.queries[1]
       IN  /\ proc.rephrased_query = expected
           /\ Len(calls) = 1 => proc.pc = "generate"
           /\ Len(calls) >= 2 =>
                 calls[2].op = "generate" /\ calls[2].args[1] = expected
           /\ \A i \in CallsOf("repair") : calls[i].args[5] = expected

C15_Witness ==
    /\ Returned
    /\ calls # <<>>
    /\ ~calls[1].raised
    /\ calls[1].out.query_type = "valid"
    /\ calls[1].out.queries # <<>>
    /\ calls[1].out.queries[1] # proc.user_query
    /\ NumCalls("repair") >= 1

C15_WitnessEmptyList ==
    /\ Returned
    /\ calls # <<>>
    /\ ~calls[1].raised
    /\ calls[1].out.query_type = "valid"
    /\ calls[1].out.queries = <<>>
    /\ NumCalls("repair") >= 1

(* C16: for every outcome of process() the front ends render a response    *)
(* by reading the envelope without raising, and a non-error envelope is    *)
(* rendered as a successful response.  (The front ends pass the default    *)
(* max_retries; the envelopes have the same forms for every max_retries    *)
(* of at least 1.)                                                         *)
C16_FrontEndsRenderEveryOutcome ==
    (Returned /\ calls # <<>> /\ proc.max_retries >= 1) =>
        /\ CliRenderException(ret) = "none"
        /\ HttpRenderException(ret) = "none"
        /\ "error" \notin DOMAIN ret => HttpQueryStatus(client, ret) = 200

TableOf(c) ==
    IF c.op = "generate" THEN <<c.args[2], c.args[3]>>
    ELSE IF c.op = "repair" THEN <<c.args[3], c.args[4]>>
    ELSE <<c.args[2]>>

C18_OneTablePerInvocation ==
    /\ \A i \in CallsOf("generate") \cup CallsOf("repair") :
          TableOf(calls[i]) = TableOf(calls[2])
    /\ \A i \in CallsOf("execute") :
          TableOf(calls[i]) = <<calls[2].args[2]>>
    /\ (Returned /\ "selected_table" \in DOMAIN ret) =>
          ret.selected_table = calls[2].args[2]

(* How the invocation went on after the answer of the call at position i *)
TreatedAsFailure(i) ==
    IF i < Len(calls) THEN calls[i + 1].op = "repair"
    ELSE proc.pc = "repair" \/ (Returned /\ IsFailedEnvelope)

TreatedAsSuccess(i) ==
    IF i < Len(calls)
    THEN calls[i + 1].op = "summarize" /\ calls[i + 1].args[2] = calls[i].out
    ELSE proc.pc \in {"summarize", "final_summarize"}

Answered(i) == ~calls[i].raised /\ calls[i].out # Pending

(* C19: an execution response is treated as a failure exactly when its     *)
(* text contains the sentinel phrase, also when it carries rows; every     *)
(* response without it is treated as a row-set and summarized.             *)
C19_FailureIffSentinel ==
    \A i \in CallsOf("execute") :
        Answered(i) =>
            /\ Contains(calls[i].out, Sentinel) => TreatedAsFailure(i)
            /\ ~Contains(calls[i].out, Sentinel) => TreatedAsSuccess(i)

C19_Witness ==
    /\ Returned
    /\ NumCalls("execute") = 2
    /\ Contains(calls[3].out, Sentinel)
    /\ Contains(calls[3].out, "rows")
    /\ calls[4].op = "repair"
    /\ calls[5].out = QueryUnparsedText
    /\ "summary" \in DOMAIN ret

(* C20: the gateway calls of an invocation are a prefix of classify,       *)
(* generate, execute, (repair, execute)*, summarize: the first execution   *)
(* runs the generated SQL, a repair follows a failed execution and is      *)
(* followed by the execution of the SQL it returned, and summarize comes   *)
(* once, last, directly after a successful execution.                      *)
C20_CallOrder ==
    \A i \in DOMAIN calls :
        /\ i = 1 <=> calls[i].op = "rephrase"
        /\ i = 2 <=> calls[i].op = "generate"
        /\ i = 3 => calls[i].op = "execute" /\ calls[i].args[1] = Strip(calls[2].out)
        /\ (calls[i].op = "execute" /\ i > 3) =>
              /\ calls[i - 1].op = "repair"
              /\ calls[i].args[1] = Strip(calls[i - 1].out)
        /\ calls[i].op = "repair" =>
              /\ calls[i - 1].op = "execute"
              /\ ExecFailed(i - 1)
              /\ i < Len(calls) => calls[i + 1].op = "execute"
        /\ calls[i].op = "summarize" =>
              /\ i = Len(calls)
              /\ calls[i - 1].op = "execute"
              /\ ExecSucceeded(i - 1)

C20_Witness ==
    /\ Returned
    /\ Len(calls) = 8
    /\ calls[8].op = "summarize"
    /\ NumCalls("repair") = 2

----------------------------------------------------------------------------
(* Nothing runs between Invoke and the caller's reading of the envelope    *)
(* when no table is selected, so at "done" the session is the one the      *)
(* invocation found.                                                       *)
NoTableSelected ==
    ~hasattr(client, "selected_table") \/ ~hasattr(client, "table_schema")

(* C21: process() on a session without table or schema issues no gateway   *)
(* call, returns the error envelope {user_query, error} saying that no     *)
(* table is selected, and leaves the session unset.                        *)
C21_NoTableEnvelope ==
    (Returned /\ NoTableSelected) =>
        /\ calls = <<>>
        /\ DOMAIN ret = {"user_query", "error"}
        /\ ret.error = NoTableError
        /\ ret.user_query = proc.user_query

(* C22: POST /query answers 400 when no table has been selected or when    *)
(* the envelope carries an error field; 500 is kept for unexpected         *)
(* exceptions.                                                             *)
C22_QueryFailuresAnswer400 ==
    (Returned /\ (NoTableSelected \/ "error" \in DOMAIN ret)) =>
        HttpQueryStatus(client, ret) = 400

(* A step of process(): its locals, its return value or its call log move *)
IsProcessStep == proc' # proc \/ ret' # ret \/ calls' # calls

(* A step in which select_table stores a selection (lines 35-36) *)
IsSelectStore ==
    \E s \in Slots :
        /\ sel[s].pc = "awaiting_schema"
        /\ sel'[s].pc = "responded"
        /\ sel'[s].status = 200
        /\ client' = StoreSelection(client, sel[s].table_name,
                                    client'.table_schema)

(* C23: process() never modifies the session: no step of it, on any path,  *)
(* changes selected_table or table_schema; every change of the session is  *)
(* a store of select_table.                                                *)
C23_OnlySelectChangesSession ==
    [][/\ IsProcessStep => client' = client
       /\ client' # client => IsSelectStore]_vars

(* A repaired or exhausted invocation has returned and the session it ran   *)
(* on is still in place.                                                   *)
C23_Witness ==
    /\ Returned
    /\ "error_messages" \in DOMAIN ret
    /\ hasattr(client, "selected_table")
    /\ hasattr(client, "table_schema")
    /\ client.table_schema # <<>>

(* The three counts the retry loop keeps in step *)
CountsAgree(error_messages) ==
    /\ Len(error_messages) = NumCalls("repair")
    /\ Len(error_messages) = proc.retry_count
    /\ Len(error_messages) <= proc.max_retries

(* C24 as stated: at every point of an invocation and in every envelope    *)
(* that carries error_messages, the length of error_messages equals the    *)
(* number of repair calls issued so far and retry_count, and never exceeds *)
(* max_retries.                                                            *)
C24_Original ==
    /\ proc.pc # "idle" => CountsAgree(proc.error_messages)
    /\ (Returned /\ "error_messages" \in DOMAIN ret) =>
           CountsAgree(ret.error_messages)

(* C24 amended: the counts agree whenever control is outside lines         *)
(* 181-192 and in every envelope that carries error_messages; between the  *)
(* append of line 181 and the increment of line 192 error_messages is one  *)
(* longer than retry_count and than the repair calls answered; its length  *)
(* never exceeds max_retries.                                              *)
C24_CountsAgreeOutsideRepair ==
    /\ Len(proc.error_messages) <= proc.max_retries
    /\ proc.pc \notin {"idle", "repair", "done"} =>
           CountsAgree(proc.error_messages)
    /\ proc.pc = "repair" =>
           /\ Len(proc.error_messages) = proc.retry_count + 1
           /\ NumCalls("repair") = proc.retry_count
    /\ (Returned /\ "error_messages" \in DOMAIN ret) =>
           CountsAgree(ret.error_messages)

(* An envelope with two or more errors has been returned *)
C24_Witness ==
    /\ Returned
    /\ "error_messages" \in DOMAIN ret
    /\ Len(ret.error_messages) >= 2
    /\ NumCalls("repair") = Len(ret.error_messages)

====
